---- MODULE Spec2Model ----
(***************************************************************************)
(* The stochastic-variational-inference notebook as a state machine.      *)
(*                                                                         *)
(* Two notebooks are modelled: the main one (full-batch model, one         *)
(* Bernoulli site per observation) and the checkpoint variant (one         *)
(* vectorised site over a random minibatch).  The state is what the        *)
(* notebook's cells leave behind: the observation tensor, pyro's           *)
(* parameter store, the optimiser's per-parameter state, the traces of     *)
(* the last svi.step, the loop position and the Python variables of the    *)
(* summary cells.                                                          *)
(*                                                                         *)
(* Numbers are exact rationals <<numerator, denominator>>.  A value of     *)
(* the unconstrained space of the positive constraint is ln(arg) +         *)
(* shift * ln 2, kept as [arg, shift], so that exp and log are computed:   *)
(* exp(ln(arg) + shift * ln 2) = arg * 2^shift.  One optimiser update      *)
(* moves a parameter by at most one such quantum against the sign of its   *)
(* gradient; the gradient itself (an estimate from one random sample) is   *)
(* a nondeterministic input.                                               *)
(***************************************************************************)
EXTENDS Integers, Sequences, FiniteSets, TLC

VARIABLES
    variant,          \* "main" | "checkpoint": which notebook runs
    data,             \* the observation tensor, a sequence of rationals 0 / 1
    pc,               \* the cell (or loop position) to run next
    n_steps,          \* the Python variable n_steps (0 before the loop cell)
    step,             \* the next value tnrange hands to the for loop
    n_calls,          \* svi.step calls made so far in this run
    store,            \* pyro's param store: name -> unconstrained value
    optim_state,      \* Adam's per-parameter step count: name -> Nat
    guide_trace,      \* sites recorded by the last run of guide
    model_trace,      \* sites recorded by the last run of model
    data_loop,        \* the iarange of the last minibatch step, or NoIarange
    n_draws,          \* latent_fairness values drawn from the generator
    alpha_q,          \* Python variable alpha_q of the retrieval cell
    beta_q,           \* Python variable beta_q of the retrieval cell
    inferred_mean,    \* Python variable inferred_mean
    factor,           \* Python variable factor
    inferred_std      \* Python variable inferred_std, as coef * sqrt(radicand)

vars == <<variant, data, pc, n_steps, step, n_calls, store, optim_state,
          guide_trace, model_trace, data_loop, n_draws, alpha_q, beta_q,
          inferred_mean, factor, inferred_std>>

---------------------------------------------------------------------------
(* Bounds of the model.                                                    *)

\* n_steps of the main notebook (1000 in the source), scaled down.
NStepsMain == 2
\* n_steps of the checkpoint notebook (5000 in the source), scaled down.
NStepsCheckpoint == 2
\* Longest observation list handed to the full-batch model
\* (the source's list has 6 ones and 4 zeros).
MaxData == 2
\* The checkpoint tensor: ones first, then zeros (600 and 400 in the source).
CkOnes == 6
CkZeros == 4
\* The iarange's size and subsample_size (100 and 50 in the source).
IarangeSize == 3
SubsampleSize == 2
\* A sampled fairness is k / SampleDen with 0 < k < SampleDen.
SampleDen == 3
\* Inputs of the summary cells: reduced fractions n / d.
MaxNum == 6
MaxDen == 3
\* Largest shift a parameter left by an earlier run may carry.
MaxLeftover == 1

---------------------------------------------------------------------------
(* Exact rational arithmetic.                                              *)

Abs(x) == IF x < 0 THEN -x ELSE x

RECURSIVE GCD(_, _)
GCD(a, b) == IF b = 0 THEN a ELSE GCD(b, a % b)

\* The fraction n / d in lowest terms with a positive denominator.
Rat(n, d) ==
    LET s == IF d < 0 THEN -1 ELSE 1
        g == GCD(Abs(n), Abs(d))
    IN  IF g = 0 THEN <<0, 0>> ELSE <<(s * n) \div g, (s * d) \div g>>

Zero == <<0, 1>>
One == <<1, 1>>

RatAdd(a, b) == Rat(a[1] * b[2] + b[1] * a[2], a[2] * b[2])
RatMul(a, b) == Rat(a[1] * b[1], a[2] * b[2])
RatDiv(a, b) == Rat(a[1] * b[2], a[2] * b[1])
RatLess(a, b) == a[1] * b[2] < b[1] * a[2]
RatPos(a) == a[2] > 0 /\ a[1] > 0

RECURSIVE Pow2(_)
Pow2(k) == IF k = 0 THEN 1 ELSE 2 * Pow2(k - 1)

---------------------------------------------------------------------------
(* Program constants.                                                      *)

\* The main notebook's data: NumOnes ones followed by NumZeros zeros.
NumOnes == 6
NumZeros == 4
\* alpha0 = torch.tensor(10.) and beta0 = torch.tensor(10.)
alpha0 == 10
beta0 == 10
\* The initial values handed to pyro.param for alpha_q and beta_q.
InitAlphaQ == 15
InitBetaQ == 15

ParamNames == {"alpha_q", "beta_q"}

InitTensor(name) ==
    IF name = "alpha_q" THEN <<InitAlphaQ, 1>> ELSE <<InitBetaQ, 1>>

---------------------------------------------------------------------------
(* pyro's parameter store with the positive constraint.                    *)

\* transform_to(positive).inv: the logarithm, into the unconstrained space.
PositiveInv(v) == [arg |-> v, shift |-> 0]

\* A registration that drops constraint=constraints.positive: the stored
\* value is then the parameter itself and an update adds to it directly
\* (a step of 8 on this model's scale).
NoConstraint(u) == RatAdd(u.arg, <<8 * u.shift, 1>>)

\* transform_to(positive): the exponential, back to the constrained space.
PositiveConstraint(u) ==
    IF u.shift >= 0
    THEN RatMul(u.arg, <<Pow2(u.shift), 1>>)
    ELSE RatMul(u.arg, <<1, Pow2(-u.shift)>>)

EmptyStore == [n \in {} |-> PositiveInv(One)]

\* pyro.clear_param_store()
ClearParamStore(st) == EmptyStore

\* A pyro.param that stores the initial tensor on every call.
PyroParamAlwaysInit(st, name) ==
    [n \in (DOMAIN st) \cup {name} |->
        IF n = name THEN PositiveInv(InitTensor(name)) ELSE st[n]]

\* pyro.param(name, init, constraint=positive): the store after the call.
\* The initial tensor is stored only when the name is not in the store yet.
PyroParam(st, name) ==
    IF name \in DOMAIN st
    THEN st
    ELSE [n \in (DOMAIN st) \cup {name} |->
            IF n = name THEN PositiveInv(InitTensor(name)) ELSE st[n]]

\* The constrained value pyro.param(name) returns.
ParamValue(st, name) == PositiveConstraint(st[name])

---------------------------------------------------------------------------
(* Traces: the sample sites one run of model or guide records.             *)

Site(name, fn, value, is_observed, scale) ==
    [name |-> name, fn |-> fn, value |-> value,
     is_observed |-> is_observed, scale |-> scale]

Beta(a, b) == <<"Beta", a, b>>
Bernoulli(p) == <<"Bernoulli", p>>

SiteNames(tr) == {tr[i].name : i \in 1..Len(tr)}
LatentNames(tr) == {tr[i].name : i \in {j \in 1..Len(tr) : ~tr[j].is_observed}}
ObservedSites(tr) == {i \in 1..Len(tr) : tr[i].is_observed}
HasSite(tr, name) == \E i \in 1..Len(tr) : tr[i].name = name
SiteOf(tr, name) == tr[CHOOSE i \in 1..Len(tr) : tr[i].name = name]

\* trace.log_prob_sum(): one term, fn.log_prob(value) * scale, per site.
LogProbTerms(tr) ==
    [i \in 1..Len(tr) |-> <<tr[i].fn, tr[i].value, tr[i].scale>>]

\* A guide that names its sample site differently from the model.
GuideSiteNameMismatch == "fairness"

\* The name of the guide's sample site.
GuideSiteName == "latent_fairness"

\* The name of the model's latent sample site.
ModelSiteName == "latent_fairness"

\* guide(data), run on store st (both parameters registered), drawing sample.
guide(st, sample) ==
    <<Site(GuideSiteName,
           Beta(ParamValue(st, "alpha_q"), ParamValue(st, "beta_q")),
           <<sample>>, FALSE, One)>>

\* The store after the guide's two pyro.param calls.
GuideParams(st) == PyroParam(PyroParam(st, "alpha_q"), "beta_q")

\* pyro.sample of a latent site while the model is replayed against the
\* guide's trace: the guide's value when it has a site of that name, and a
\* fresh draw from the site's own distribution otherwise.
Replayed(gtr, name, fresh) ==
    IF HasSite(gtr, name) THEN SiteOf(gtr, name).value ELSE <<fresh>>

\* The values a draw from a Beta distribution is taken from, inside (0, 1).
FairnessSamples == {Rat(k, SampleDen) : k \in 1..(SampleDen - 1)}

\* The values the model's own draw can take: a draw is made only when the
\* replay finds no site of the model's name.
FreshDraws(gtr, sample) ==
    IF HasSite(gtr, ModelSiteName) THEN {sample} ELSE FairnessSamples

\* Fresh latent draws one step makes: the guide's, plus the model's when
\* the replay finds no site of the model's name.
DrawsOfStep(gtr) == 1 + (IF HasSite(gtr, ModelSiteName) THEN 0 ELSE 1)

Digit(d) ==
    CASE d = 0 -> "0" [] d = 1 -> "1" [] d = 2 -> "2" [] d = 3 -> "3"
      [] d = 4 -> "4" [] d = 5 -> "5" [] d = 6 -> "6" [] d = 7 -> "7"
      [] d = 8 -> "8" [] d = 9 -> "9"

\* "{}".format(i) for a non-negative integer: its decimal digits.
RECURSIVE Format(_)
Format(i) == IF i < 10 THEN Digit(i) ELSE Format(i \div 10) \o Digit(i % 10)

\* A site name that leaves the index out.
ObsSiteNameNoIndex(i) == "obs"

\* "obs_{}".format(i)
ObsSiteName(i) == "obs_" \o Format(i)

\* for i, j in enumerate(data): pyro.sample("obs_i", Bernoulli(f), obs=data[i])
\* from index i on (indices are Python's, from 0).
RECURSIVE ObsSites(_, _, _)
ObsSites(d, f, i) ==
    IF i >= Len(d)
    THEN <<>>
    ELSE <<Site(ObsSiteName(i), Bernoulli(f), <<d[i + 1]>>, TRUE, One)>>
         \o ObsSites(d, f, i + 1)

\* model(data) of the main notebook, replayed against the guide's trace gtr.
model(d, gtr, fresh) ==
    LET f == Replayed(gtr, ModelSiteName, fresh)
    IN  <<Site(ModelSiteName, Beta(<<alpha0, 1>>, <<beta0, 1>>), f, FALSE, One)>>
        \o ObsSites(d, f[1], 0)

\* The indices of the set ind in increasing order.
RECURSIVE Ascending(_)
Ascending(ind) ==
    IF ind = {}
    THEN <<>>
    ELSE LET lo == CHOOSE i \in ind : \A j \in ind : i <= j
         IN  <<lo>> \o Ascending(ind \ {lo})

\* data.index_select(0, ind): the elements at the positions ind names
\* (indices are Python's, from 0).  The minibatch is kept in increasing
\* order of index: the order the permutation gives only permutes it.
IndexSelect(d, ind) ==
    LET order == Ascending(ind)
    IN  [k \in 1..Len(order) |-> d[order[k] + 1]]

\* model(data) of the checkpoint notebook: one vectorised site over the
\* minibatch ind the iarange drew, scaled by size / subsample_size.
model_minibatch(d, gtr, fresh, ind) ==
    LET f == Replayed(gtr, ModelSiteName, fresh)
    IN  <<Site(ModelSiteName, Beta(<<alpha0, 1>>, <<beta0, 1>>), f, FALSE, One),
          Site("obs", Bernoulli(f[1]), IndexSelect(d, ind), TRUE,
               Rat(IarangeSize, SubsampleSize))>>

\* The index sequences pyro.iarange('data_loop', size, subsample_size) can
\* yield: the first subsample_size entries of a permutation of range(size).
Subsamples ==
    {s \in SUBSET (0..(IarangeSize - 1)) : Cardinality(s) = SubsampleSize}

NoIarange == [size |-> 0, subsample_size |-> 0, ind |-> {}]

\* The optimiser's update of every parameter in the store: each moves one
\* quantum against the sign of its gradient, in the unconstrained space.
AdamStep(st, grads) ==
    [n \in DOMAIN st |-> [st[n] EXCEPT !.shift = @ - grads[n]]]

\* The optimiser's state after the update: one more step per parameter; a
\* parameter created in this step starts from a fresh state.
AdamState(old_st, st, opt) ==
    [n \in DOMAIN st |-> (IF n \in DOMAIN old_st THEN opt[n] ELSE 0) + 1]

\* The sign of a gradient of the loss.
Gradients == {-1, 0, 1}

---------------------------------------------------------------------------
(* The summary cells.                                                      *)

\* A mean that divides by beta_q alone.
InferredMeanOdds(a, b) == RatDiv(a, b)

\* A mean with the two parameters exchanged in the numerator.
InferredMeanSwapped(a, b) == RatDiv(b, RatAdd(a, b))

\* A mean whose denominator carries the variance's extra 1.
InferredMeanPlusOne(a, b) == RatDiv(a, RatAdd(RatAdd(One, a), b))

\* inferred_mean = alpha_q / (alpha_q + beta_q)
InferredMean(a, b) == RatDiv(a, RatAdd(a, b))

\* A factor that leaves the 1.0 out.
FactorNoOne(a, b) == RatDiv(b, RatMul(a, RatAdd(a, b)))

\* factor = beta_q / (alpha_q * (1.0 + alpha_q + beta_q))
Factor(a, b) == RatDiv(b, RatMul(a, RatAdd(RatAdd(One, a), b)))

\* inferred_std = inferred_mean * math.sqrt(factor), kept as the pair
\* coefficient and radicand: the value is coef * sqrt(radicand).
InferredStd(m, f) == [coef |-> m, radicand |-> f]

\* The square of coef * sqrt(radicand).
StdSquared(sd) == RatMul(RatMul(sd.coef, sd.coef), sd.radicand)

\* A Python variable that no cell has assigned yet.
Unset == <<0, 0>>

---------------------------------------------------------------------------
(* The notebook.                                                           *)

\* data = [tensor(1.)] * 6 + [tensor(0.)] * 4
MainData == [i \in 1..(NumOnes + NumZeros) |-> IF i <= NumOnes THEN One ELSE Zero]

\* data = torch.zeros(1000); data[:600] = torch.ones(600)
CheckpointData == [i \in 1..(CkOnes + CkZeros) |-> IF i <= CkOnes THEN One ELSE Zero]

\* The observation lists the full-batch model is run on: the notebook's
\* own, and every list of at most MaxData coin flips (the empty one too).
BinaryLists == UNION {[1..n -> {Zero, One}] : n \in 0..MaxData}

DataChoices(v) ==
    IF v = "main" THEN BinaryLists \cup {MainData} ELSE {CheckpointData}

\* What an earlier run of the notebook may have left in the param store.
LeftoverStores ==
    {EmptyStore} \cup
    {[n \in ParamNames |->
        [arg |-> InitTensor(n), shift |-> IF n = "alpha_q" THEN sa ELSE sb]] :
        sa \in (-MaxLeftover)..MaxLeftover, sb \in (-MaxLeftover)..MaxLeftover}

Init ==
    /\ variant \in {"main", "checkpoint"}
    /\ data \in DataChoices(variant)
    /\ pc = "loop_cell"
    /\ n_steps = 0
    /\ step = 0
    /\ n_calls = 0
    /\ store \in LeftoverStores
    /\ optim_state = [n \in DOMAIN store |-> 1]
    /\ guide_trace = <<>>
    /\ model_trace = <<>>
    /\ data_loop = NoIarange
    /\ n_draws = 0
    /\ alpha_q = Unset
    /\ beta_q = Unset
    /\ inferred_mean = Unset
    /\ factor = Unset
    /\ inferred_std = InferredStd(Unset, Unset)

\* A loop that runs one step too many.
LoopContinuesInclusive == step <= n_steps

\* for step in tnrange(n_steps): the iterator has a next value.
LoopContinues == step < n_steps

\* The head of the loop cell: enable_validation, clear_param_store,
\* n_steps = ..., and the creation of the range iterator.
LoopCell ==
    /\ pc = "loop_cell"
    /\ store' = ClearParamStore(store)
    /\ n_steps' = (IF variant = "main" THEN NStepsMain ELSE NStepsCheckpoint)
    /\ step' = 0
    /\ pc' = "loop"
    /\ UNCHANGED <<variant, data, n_calls, optim_state, guide_trace,
                   model_trace, data_loop, n_draws, alpha_q, beta_q,
                   inferred_mean, factor, inferred_std>>

\* One iteration of the loop: svi.step(data).  The guide runs (registering
\* its parameters and drawing a fairness), the model runs replayed against
\* the guide's trace, and the optimiser updates every parameter once.
SviStep ==
    /\ pc = "loop"
    /\ LoopContinues
    /\ step' = step + 1
    /\ n_calls' = n_calls + 1
    /\ \E st \in {GuideParams(store)} :
          /\ optim_state' = AdamState(store, st, optim_state)
          /\ \E grads \in [ParamNames -> Gradients] :
                store' = AdamStep(st, grads)
          /\ \E ind \in (IF variant = "main" THEN {{}} ELSE Subsamples) :
                /\ data_loop' = (IF variant = "main"
                                 THEN NoIarange
                                 ELSE [size |-> IarangeSize,
                                       subsample_size |-> SubsampleSize,
                                       ind |-> ind])
                /\ \E sample \in FairnessSamples :
                   \E gtr \in {guide(st, sample)} :
                      /\ guide_trace' = gtr
                      /\ n_draws' = n_draws + DrawsOfStep(gtr)
                      /\ \E fresh \in FreshDraws(gtr, sample) :
                            model_trace' =
                                (IF variant = "main"
                                 THEN model(data, gtr, fresh)
                                 ELSE model_minibatch(data, gtr, fresh, ind))
    /\ UNCHANGED <<variant, data, pc, n_steps, alpha_q, beta_q,
                   inferred_mean, factor, inferred_std>>

\* The range iterator is exhausted: the loop cell ends.
LoopExit ==
    /\ pc = "loop"
    /\ ~LoopContinues
    /\ pc' = "retrieve"
    /\ UNCHANGED <<variant, data, n_steps, step, n_calls, store, optim_state,
                   guide_trace, model_trace, data_loop, n_draws, alpha_q,
                   beta_q, inferred_mean, factor, inferred_std>>

\* alpha_q = pyro.param("alpha_q").item(); beta_q = pyro.param("beta_q").item()
Retrieve ==
    /\ pc = "retrieve"
    /\ ParamNames \subseteq DOMAIN store
    /\ alpha_q' = ParamValue(store, "alpha_q")
    /\ beta_q' = ParamValue(store, "beta_q")
    /\ pc' = "mean"
    /\ UNCHANGED <<variant, data, n_steps, step, n_calls, store, optim_state,
                   guide_trace, model_trace, data_loop, n_draws,
                   inferred_mean, factor, inferred_std>>

\* inferred_mean = alpha_q / (alpha_q + beta_q)
ComputeMean ==
    /\ pc = "mean"
    /\ inferred_mean' = InferredMean(alpha_q, beta_q)
    /\ pc' = "std"
    /\ UNCHANGED <<variant, data, n_steps, step, n_calls, store, optim_state,
                   guide_trace, model_trace, data_loop, n_draws, alpha_q,
                   beta_q, factor, inferred_std>>

\* factor = ...; inferred_std = inferred_mean * math.sqrt(factor)
ComputeStd ==
    /\ pc = "std"
    /\ LET f == Factor(alpha_q, beta_q)
       IN  /\ factor' = f
           /\ inferred_std' = InferredStd(inferred_mean, f)
    /\ pc' = "print"
    /\ UNCHANGED <<variant, data, n_steps, step, n_calls, store, optim_state,
                   guide_trace, model_trace, data_loop, n_draws, alpha_q,
                   beta_q, inferred_mean>>

\* print(...): the last cell; it changes no variable of the program.
PrintResult ==
    /\ pc = "print"
    /\ pc' = "done"
    /\ UNCHANGED <<variant, data, n_steps, step, n_calls, store, optim_state,
                   guide_trace, model_trace, data_loop, n_draws, alpha_q,
                   beta_q, inferred_mean, factor, inferred_std>>

Next ==
    \/ LoopCell
    \/ SviStep
    \/ LoopExit
    \/ Retrieve
    \/ ComputeMean
    \/ ComputeStd
    \/ PrintResult

Spec == Init /\ [][Next]_vars

\* The kernel runs the loop cell to its end: its head, every iteration the
\* iterator still has, and the exit of the loop are taken when they can be.
FairSpec ==
    /\ Spec
    /\ WF_vars(LoopCell)
    /\ WF_vars(SviStep)
    /\ WF_vars(LoopExit)

---------------------------------------------------------------------------
(* The summary cells on their own, for every pair of positive parameters.  *)

\* Positive fractions n / d in lowest terms, and the initial values.
PositiveGrid ==
    {Rat(n, d) : n \in 1..MaxNum, d \in 1..MaxDen}
        \cup {InitTensor(n) : n \in ParamNames}

SummaryInit ==
    /\ variant = "main"
    /\ data = MainData
    /\ pc = "mean"
    /\ n_steps = 0
    /\ step = 0
    /\ n_calls = 0
    /\ store = EmptyStore
    /\ optim_state = [n \in {} |-> 0]
    /\ guide_trace = <<>>
    /\ model_trace = <<>>
    /\ data_loop = NoIarange
    /\ n_draws = 0
    /\ alpha_q \in PositiveGrid
    /\ beta_q \in PositiveGrid
    /\ inferred_mean = Unset
    /\ factor = Unset
    /\ inferred_std = InferredStd(Unset, Unset)

SummaryNext ==
    \/ ComputeMean
    \/ ComputeStd
    \/ PrintResult

SummarySpec == SummaryInit /\ [][SummaryNext]_vars

---------------------------------------------------------------------------
(* Properties.                                                             *)

AfterLoop == {"retrieve", "mean", "std", "print", "done"}
MeanComputed == {"std", "print", "done"}
StdComputed == {"print", "done"}

\* C1: in every state of the optimisation loop (after the parameters are
\* created at 15.0 and after each update), alpha_q and beta_q are strictly
\* positive: the values in the store, the values the guide's Beta
\* distribution was built from, and the values the retrieval cell reads.
C1_ParamsPositive ==
    pc /= "loop_cell" =>
        /\ \A n \in DOMAIN store : RatPos(ParamValue(store, n))
        /\ Len(guide_trace) > 0 =>
              /\ RatPos(guide_trace[1].fn[2])
              /\ RatPos(guide_trace[1].fn[3])
        /\ pc \in MeanComputed \cup {"mean"} => RatPos(alpha_q) /\ RatPos(beta_q)

\* C1 witness: the loop has run all its steps, every one of them pushed
\* alpha_q down, and the parameter is still in the store.
C1_Witness ==
    /\ pc = "loop"
    /\ n_calls = n_steps
    /\ n_calls >= 2
    /\ "alpha_q" \in DOMAIN store
    /\ store["alpha_q"].shift = -n_calls

\* C2: the loop always terminates, after exactly n_steps calls of svi.step
\* (the count the notebook sets), whatever the parameters are; the calls
\* run one after another, each starting from the parameters the one before
\* left in the store.
C2_TerminatesAfterNSteps ==
    /\ <>(pc \in AfterLoop)
    /\ [](pc \in AfterLoop =>
            /\ n_calls = n_steps
            /\ n_steps = (IF variant = "main" THEN NStepsMain ELSE NStepsCheckpoint))
    /\ [][n_calls' /= n_calls =>
            /\ pc = "loop" /\ pc' = "loop"
            /\ n_calls' = n_calls + 1
            /\ n_calls < n_steps
            /\ (n_calls >= 1 =>
                  /\ guide_trace'[1].fn[2] = ParamValue(store, "alpha_q")
                  /\ guide_trace'[1].fn[3] = ParamValue(store, "beta_q"))]_vars

\* C2 witness: the loop has ended after its n_steps calls.
C2_Witness ==
    /\ pc = "retrieve"
    /\ n_calls = n_steps
    /\ n_steps >= 2

C4_StdIsRootOfBetaVariance ==
    (pc \in StdComputed /\ RatPos(alpha_q) /\ RatPos(beta_q)) =>
        LET sum == RatAdd(alpha_q, beta_q)
            variance == RatDiv(RatMul(alpha_q, beta_q),
                               RatMul(RatMul(sum, sum), RatAdd(sum, One)))
        IN  /\ StdSquared(inferred_std) = variance
            /\ RatPos(inferred_std.coef)
            /\ RatPos(inferred_std.radicand)

\* C4 witness: the standard deviation of Beta(2, 1): variance 2 / 36.
C4_Witness ==
    /\ pc = "print"
    /\ alpha_q = <<2, 1>>
    /\ beta_q = One
    /\ StdSquared(inferred_std) = <<1, 18>>

C6_EqualParamsGiveHalf ==
    (pc \in MeanComputed /\ alpha_q = beta_q) => inferred_mean = <<1, 2>>

\* C6 witness: the mean of the initial parameters, 15 and 15.
C6_Witness ==
    /\ pc = "std"
    /\ alpha_q = <<InitAlphaQ, 1>>
    /\ beta_q = <<InitBetaQ, 1>>
    /\ inferred_mean = <<1, 2>>

\* The names obs_0, obs_1, ... written out, by index + 1.
ExpectedObsNames ==
    <<"obs_0", "obs_1", "obs_2", "obs_3", "obs_4", "obs_5", "obs_6",
      "obs_7", "obs_8", "obs_9", "obs_10", "obs_11">>

\* C7: one run of the full-batch model on n observations records the
\* latent site with its Beta(alpha0, beta0) term and exactly n observed
\* sites, named obs_0 .. obs_{n-1} without repetition, site obs_i being a
\* Bernoulli(fairness) term conditioned on data[i]; with no observation
\* only the prior term remains.
C7_OneTermPerObservation ==
    (variant = "main" /\ Len(model_trace) > 0) =>
        LET n == Len(data)
            f == model_trace[1].value
            terms == LogProbTerms(model_trace)
        IN  /\ Len(model_trace) = n + 1
            /\ Len(terms) = n + 1
            /\ terms[1] = <<Beta(<<10, 1>>, <<10, 1>>), f, One>>
            /\ ~model_trace[1].is_observed
            /\ Cardinality(ObservedSites(model_trace)) = n
            /\ Cardinality(SiteNames(model_trace)) = n + 1
            /\ \A i \in 0..(n - 1) :
                  /\ HasSite(model_trace, ExpectedObsNames[i + 1])
                  /\ SiteOf(model_trace, ExpectedObsNames[i + 1]) =
                        Site(ExpectedObsNames[i + 1], Bernoulli(f[1]),
                             <<data[i + 1]>>, TRUE, One)
            /\ n = 0 => terms = <<<<Beta(<<10, 1>>, <<10, 1>>), f, One>>>>

\* C7 witness: the model has run on the notebook's ten observations.
C7_Witness ==
    /\ variant = "main"
    /\ data = MainData
    /\ Len(model_trace) = 11
    /\ model_trace[11].name = "obs_9"
    /\ model_trace[11].value = <<Zero>>

\* C8: in every step the guide's sample sites and the model's latent sites
\* carry the same single name, latent_fairness; the model is evaluated at
\* the fairness the guide drew in that step; and one fairness is drawn per
\* step.
C8_GuideAndModelShareTheSample ==
    Len(guide_trace) > 0 =>
        /\ SiteNames(guide_trace) = {"latent_fairness"}
        /\ LatentNames(model_trace) = {"latent_fairness"}
        /\ Len(guide_trace) = 1
        /\ SiteOf(model_trace, "latent_fairness").value = guide_trace[1].value
        /\ \A i \in ObservedSites(model_trace) :
              model_trace[i].fn = Bernoulli(guide_trace[1].value[1])
        /\ n_draws = n_calls

\* C8 witness: a second step of the minibatch notebook, with its sample.
C8_Witness ==
    /\ variant = "checkpoint"
    /\ n_calls = 2
    /\ Len(guide_trace) = 1
    /\ guide_trace[1].value = <<Rat(1, SampleDen)>>
    /\ model_trace[2].fn = Bernoulli(Rat(1, SampleDen))

\* C9: in the minibatch notebook the indices a step's minibatch is drawn
\* from range over the whole observation tensor, so that every one and
\* every zero can be selected, and every selected index is valid.
C9_MinibatchRangesOverAllData ==
    (variant = "checkpoint" /\ data_loop /= NoIarange) =>
        /\ 0..(data_loop.size - 1) = 0..(Len(data) - 1)
        /\ data_loop.ind \subseteq 0..(Len(data) - 1)

\* C10: the parameters are created once, updated once per step and read at
\* the end: the first guide call after clear_param_store sees 15.0 and
\* 15.0 whatever the store held before; every later guide call sees the
\* values the step before left; each step updates each parameter once;
\* and the retrieval cell reads the values the last step left.
C10_ParamLifecycle ==
    /\ [](n_calls = 1 =>
            guide_trace[1].fn = Beta(<<15, 1>>, <<15, 1>>))
    /\ [](Len(guide_trace) > 0 =>
            /\ DOMAIN store = ParamNames
            /\ \A n \in ParamNames : optim_state[n] = n_calls)
    /\ [](pc \in MeanComputed \cup {"mean"} =>
            /\ n_calls = n_steps
            /\ alpha_q = ParamValue(store, "alpha_q")
            /\ beta_q = ParamValue(store, "beta_q"))
    /\ [][(n_calls' = n_calls + 1 /\ n_calls >= 1) =>
            /\ guide_trace'[1].fn =
                  Beta(ParamValue(store, "alpha_q"), ParamValue(store, "beta_q"))
            /\ \A n \in ParamNames :
                  store'[n].shift - store[n].shift \in {-1, 0, 1}]_vars
    /\ [][(pc \in AfterLoop) => UNCHANGED store]_vars

\* C10 witness: the retrieval cell has read parameters that differ from
\* 15.0 and from each other after the last step.
C10_Witness ==
    /\ pc = "mean"
    /\ n_calls = n_steps
    /\ alpha_q = <<60, 1>>
    /\ beta_q = <<15, 2>>

====
